---- MODULE Spec2Model ----
(***************************************************************************)
(* A model of the goagents runtime: the agent lifecycle Manager            *)
(* (pkg/agent/lifecycle.go) and the runtime Engine                         *)
(* (pkg/runtime/engine.go).                                                *)
(*                                                                         *)
(* The system under test is either a standalone Manager driven through its *)
(* exported methods, or an Engine driven through its exported methods (the *)
(* Engine's Manager is an unexported field, so only the Engine calls it).  *)
(*                                                                         *)
(* Time is discrete; one tick is the 100 ms poll period of                 *)
(* Manager.ProcessRequest.  A goroutine that waits on a timer takes its    *)
(* step as soon as the timer is due: the clock does not advance past a due *)
(* timer.  API calls may be issued at any time.                            *)
(***************************************************************************)
EXTENDS Integers, Sequences, FiniteSets, TLC

\* ------------------------------------------------------------------ bounds
\* API calls issued after construction
MaxCalls == 4
MaxTime == 2
\* calls of Engine.Close, and of Engine.GetMetrics, in a behaviour
MaxCloses == 1
MaxSnapshots == 1
\* events a consumer of Events() takes from a full channel before it lags
\* again, and free slots of the channel a behaviour may start with
MaxReceives == 2
MaxFreeSlots == 2
\* the 30 s startup bound and the 5 min default idle timeout, in ticks,
\* scaled down to a few poll periods
StartupTimeoutTicks == 2
DefaultIdleTicks == 2
\* time.After(100 * time.Millisecond): one tick
PollTicks == 1
\* make(chan Event, 100)
EventCap == 100

AgentIds == {1, 2}
Clients == {"c1", "c2"}
\* Config.Resources.Timeout values handed to CreateAgent (0: not set)
IdleTimeouts == {0, 1}
ClusterNames == {"k1", "k2"}
AgentNames == {"x", "y"}
\* the goroutines that take locks: callers of the API, startCluster
\* goroutines, runAgent goroutines
Threads == {"t1", "t2", "t3"}
\* no manifest handed to the Loader
NoManifest == [name |-> "", agents |-> <<>>]
\* the cluster manifests handed to DeployCluster
ClusterSpecs ==
  { [name |-> "k1", agents |-> <<[name |-> "x", provider |-> "anthropic",
                                  tools |-> {}, model |-> "m1",
                                  prompt |-> "be brief", timeout |-> 1]>>],
    [name |-> "k1", agents |-> <<[name |-> "x", provider |-> "mock",
                                  tools |-> {}, model |-> "m1", prompt |-> "",
                                  timeout |-> 0],
                                 [name |-> "y", provider |-> "anthropic",
                                  tools |-> {"http1"}, model |-> "m2",
                                  prompt |-> "", timeout |-> 0]>>],
    [name |-> "k2", agents |-> <<[name |-> "x", provider |-> "anthropic",
                                  tools |-> {"http1"}, model |-> "m2",
                                  prompt |-> "", timeout |-> 0]>>] }

VARIABLES
  sut,        \* "manager": a standalone Manager; "engine": an Engine
  now,        \* the clock, in ticks
  crashed,    \* the process died of a runtime panic
  reg,        \* Manager.agents: the ids in the registry
  nCreated,   \* number of Agent objects allocated so far
  agents,     \* the Agent objects, by id (they outlive their registry entry)
  sups,       \* per agent, the runAgent goroutines alive
  events,     \* Manager.events, the buffered channel
  clusterReg, \* Engine.clusters: name -> Cluster object (0: absent)
  clusters,   \* the Cluster objects, each with its startCluster goroutine
  resources,  \* the tools registered with the tool manager, and the providers
              \* and tools closed so far
  metrics,    \* Engine.metrics
  pc,         \* per client, its position in the call it is making
  loc,        \* per client, the locals of the call it is making
  ret,        \* per client, the last call it completed and what it returned
              \* ("ok": no error; "err": an error; "soft": a Response that
              \* carries an error)
  resp,       \* per client, the Response its last completed call returned
  snap,       \* per client, the *Metrics it holds from its last GetMetrics:
              \* what the pointer refers to and, for a copy, the copy
  hist,       \* per agent, the StopAgent and DeleteAgent calls made on it since
              \* its last successful start, counted up to 2 (history, for the
              \* properties)
  calls,      \* number of API calls issued so far
  manifest,   \* the AgentCluster manifest handed to the configuration Loader
  prog,       \* per thread, the lock operations left in what it is running
  held        \* the locks held: <<thread, lock, "w" or "r">>

mgrVars == <<reg, nCreated, agents, sups, events, hist>>
engVars == <<clusterReg, clusters, metrics, resources>>
cliVars == <<pc, loc, ret, resp, snap>>
ldrVars == <<manifest>>
lockVars == <<prog, held>>
vars == <<sut, now, crashed, reg, nCreated, agents, sups, events, hist,
          clusterReg, clusters, metrics, resources, pc, loc, ret, resp, snap,
          calls, manifest, prog, held>>

\* ---------------------------------------------------------- faulty variants
\* plausible faults of definitions below; a property that holds of the model
\* fails when its definition is replaced by the variant
\* DeleteAgent that does not check that the id is known
DeleteKnown_Always(a) == TRUE

\* DeployCluster that does not check the name
ClusterExists_Never(n) == FALSE

\* DeleteCluster that leaves ClustersTotal as it is
ClusterUncounted_Not(m) == m

\* Engine.ProcessRequest that serves only a running cluster
EPRTarget_Running(n, x) ==
  IF clusterReg[n] = 0 \/ clusters[clusterReg[n]].status # "running" THEN 0
  ELSE clusters[clusterReg[n]].agents[x]

\* UpdateLastActivity that stores the time the request began
ActivityTime_Start(start) == start

\* Engine.ProcessRequest that does not check the provider lookup
ProviderAvailable_Any(a) == TRUE

\* StartAgent that refuses only an agent that is already up
Startable_NotUp(s) == s \notin {"running", "idle"}

\* StartAgent that also restarts an agent whose stop has only been requested
Startable_Stopping(s) == s \in {"pending", "stopped", "stopping"}

\* a soft failure that still carries a content and metadata
FailResponse_Full(c) ==
  [id |-> "", content |-> "text", toolUses |-> 0, error |-> "provider error",
   metadata |-> TRUE]

\* GetMetrics that returns the engine's own Metrics object
SnapshotRef_Live == "live"

\* publishEvent that always sends
publishEvent_Unbounded(q, ev) == Append(q, ev)

\* a request conversion that puts the system prompt after the messages
ChatMessages_PromptLast(prompt, msgs) ==
  LET copied == [i \in 1..Len(msgs) |->
                   [role |-> msgs[i].role, content |-> msgs[i].content]]
  IN IF prompt # "" THEN copied \o <<[role |-> "system", content |-> prompt]>>
     ELSE copied

\* an average that is the latest duration
NewAverage_Latest(avg, d) == d

\* Engine.ProcessRequest that does not count the request
Counted_Not(m) == m

\* ------------------------------------------------------------ Agent objects
NoAgent ==
  [status |-> "none", lastActivity |-> 0, updatedAt |-> 0, cancelled |-> FALSE,
   timeout |-> 0, provider |-> "", model |-> "", prompt |-> "", name |-> "",
   cluster |-> "", total |-> 0, succ |-> 0, fail |-> 0, lastReq |-> 0]

\* no ChatRequest
NoChat == [model |-> "", messages |-> <<>>]

NoLoc == [a |-> 0, k |-> 0, seen |-> "none", deadline |-> 0, pollAt |-> 0,
          start |-> 0, todo |-> {}, done |-> {}, chat |-> NoChat]

Capped(n) == IF n < 2 THEN n + 1 ELSE n

\* generateAgentID: ids are taken to be fresh (UnixNano of successive calls
\* under m.mu differ)
generateAgentID == nCreated + 1

\* publishEvent: a non-blocking send on the buffered channel
publishEvent(q, ev) == IF Len(q) < EventCap THEN Append(q, ev) ELSE q

\* the body of CreateAgent: the new Agent object
NewAgent(id, timeout, provider) ==
  [status |-> "pending", lastActivity |-> now, updatedAt |-> now,
   cancelled |-> FALSE, timeout |-> timeout, provider |-> provider,
   model |-> "", prompt |-> "", name |-> "", cluster |-> "", total |-> 0,
   succ |-> 0, fail |-> 0, lastReq |-> 0]

\* StartAgent's state check
Startable(s) == s \in {"pending", "stopped"}

\* StopAgent's early return
AlreadyStopping(s) == s \in {"stopped", "stopping"}

\* runAgent's choice of the idle timeout
idleTimeout(a) ==
  IF agents[a].timeout > 0 THEN agents[a].timeout ELSE DefaultIdleTicks

Remove(s, i) == SubSeq(s, 1, i - 1) \o SubSeq(s, i + 1, Len(s))

\* no Response (nil)
NoResp ==
  [id |-> "", content |-> "", toolUses |-> 0, error |-> "", metadata |-> FALSE]

\* Request.ID, chosen by the caller
ReqId(c) == IF c = "c1" THEN "r1" ELSE "r2"

Replied(c, op, res, r) ==
  /\ pc' = [pc EXCEPT ![c] = "idle"]
  /\ loc' = [loc EXCEPT ![c] = NoLoc]
  /\ ret' = [ret EXCEPT ![c] = [op |-> op, res |-> res]]
  /\ resp' = [resp EXCEPT ![c] = r]
  /\ snap' = snap

Returned(c, op, res) == Replied(c, op, res, NoResp)

Goto(c, label, l) ==
  /\ pc' = [pc EXCEPT ![c] = label]
  /\ loc' = [loc EXCEPT ![c] = l]
  /\ UNCHANGED <<ret, resp, snap>>

CanCall(c) ==
  /\ ~crashed
  /\ pc[c] = "idle"
  /\ calls < MaxCalls

\* initializeProviders: the providers the configuration names
RegisteredProviders == {"anthropic"}

NoMetrics ==
  [clustersTotal |-> 0, agentsTotal |-> 0, total |-> 0, succ |-> 0, fail |-> 0,
   avg |-> 0]

\* ------------------------------------------------------------------- Init
\* NewManager, or NewEngine
Fresh(q) ==
  /\ now = 0
  /\ crashed = FALSE
  /\ reg = {}
  /\ nCreated = 0
  /\ agents = [a \in AgentIds |-> NoAgent]
  /\ sups = [a \in AgentIds |-> <<>>]
  /\ events = q
  /\ hist = [a \in AgentIds |-> 0]
  /\ clusterReg = [n \in ClusterNames |-> 0]
  /\ clusters = <<>>
  /\ metrics = NoMetrics
  /\ resources = [tools |-> {}, provClosed |-> {}, toolsClosed |-> {}]
  /\ pc = [c \in Clients |-> "idle"]
  /\ loc = [c \in Clients |-> NoLoc]
  /\ ret = [c \in Clients |-> [op |-> "none", res |-> "none"]]
  /\ resp = [c \in Clients |-> NoResp]
  /\ snap = [c \in Clients |-> [ref |-> "none", val |-> NoMetrics]]
  /\ calls = 0
  /\ prog = [t \in Threads |-> <<>>]
  /\ held = {}

Init == sut \in {"manager", "engine"} /\ Fresh(<<>>) /\ manifest = NoManifest

\* ------------------------------------------------------- Manager: the API
\* the AgentConfigs handed to Manager.CreateAgent: provider, model and idle
\* timeout, each set or left empty
AgentConfigs ==
  [provider : {"anthropic", ""}, model : {"m1", ""}, timeout : IdleTimeouts]

\* Manager.CreateAgent, one critical section of m.mu: the config is stored
\* as it is
CreateAgentCfg(c, cfg) ==
  /\ sut = "manager"
  /\ CanCall(c)
  /\ nCreated < Cardinality(AgentIds)
  /\ calls' = calls + 1
  /\ LET id == generateAgentID IN
       /\ agents' = [agents EXCEPT ![id] =
                       [NewAgent(id, cfg.timeout, cfg.provider) EXCEPT
                          !.model = cfg.model]]
       /\ reg' = reg \cup {id}
       /\ nCreated' = nCreated + 1
       /\ Returned(c, "CreateAgent", "ok")
  /\ UNCHANGED <<sut, ldrVars, lockVars, now, crashed, sups, events, hist>>
  /\ UNCHANGED engVars

\* Manager.CreateAgent with a config that names a provider (the model left
\* empty) and an idle timeout
CreateAgent(c, t) ==
  /\ sut = "manager"
  /\ CanCall(c)
  /\ nCreated < Cardinality(AgentIds)
  /\ calls' = calls + 1
  /\ LET id == generateAgentID IN
       /\ agents' = [agents EXCEPT ![id] = NewAgent(id, t, "anthropic")]
       /\ reg' = reg \cup {id}
       /\ nCreated' = nCreated + 1
       /\ Returned(c, "CreateAgent", "ok")
  /\ UNCHANGED <<sut, ldrVars, lockVars, now, crashed, sups, events, hist>>
  /\ UNCHANGED engVars

\* the effect of a successful StartAgent: status starting, go runAgent,
\* publish agent.started
DoStart(a) ==
  /\ agents' = [agents EXCEPT ![a].status = "starting", ![a].updatedAt = now]
  /\ sups' = [sups EXCEPT ![a] = Append(@, [pc |-> "start", timer |-> 0, la |-> 0])]
  /\ events' = publishEvent(events, <<"agent.started", a>>)
  /\ hist' = [hist EXCEPT ![a] = 0]

StartOk(a) == a \in reg /\ Startable(agents[a].status)

\* Manager.StartAgent
StartAgent(c, a) ==
  /\ sut = "manager"
  /\ CanCall(c)
  /\ IF StartOk(a)
       THEN DoStart(a) /\ Returned(c, "StartAgent", "ok")
       ELSE Returned(c, "StartAgent", "err") /\ UNCHANGED <<agents, sups, events, hist>>
  /\ calls' = calls + 1
  /\ UNCHANGED <<sut, ldrVars, lockVars, now, crashed, reg, nCreated>>
  /\ UNCHANGED engVars

\* StopAgent on a known agent (it returns nil): the early return, or status
\* stopping, cancel() and agent.stopped
StoppedAgent(r) ==
  IF AlreadyStopping(r.status)
    THEN r
    ELSE [r EXCEPT !.status = "stopping", !.updatedAt = now, !.cancelled = TRUE]

\* Manager.StopAgent
StopAgent(c, a) ==
  /\ sut = "manager"
  /\ CanCall(c)
  /\ IF a \in reg
       THEN /\ agents' = [agents EXCEPT ![a] = StoppedAgent(@)]
            /\ events' = IF AlreadyStopping(agents[a].status)
                           THEN events
                           ELSE publishEvent(events, <<"agent.stopped", a>>)
            /\ hist' = [hist EXCEPT ![a] = Capped(@)]
            /\ Returned(c, "StopAgent", "ok")
       ELSE Returned(c, "StopAgent", "err") /\ UNCHANGED <<agents, events, hist>>
  /\ calls' = calls + 1
  /\ UNCHANGED <<sut, ldrVars, lockVars, now, crashed, reg, nCreated, sups>>
  /\ UNCHANGED engVars

\* DeleteAgent on a known agent: cancel() only when running
DeletedAgent(r) ==
  IF r.status = "running" THEN [r EXCEPT !.cancelled = TRUE] ELSE r

\* DeleteAgent's lookup of the id in m.agents
DeleteKnown(a) == a \in reg

\* Manager.DeleteAgent, one critical section of m.mu
DeleteAgent(c, a) ==
  /\ sut = "manager"
  /\ CanCall(c)
  /\ IF DeleteKnown(a)
       THEN /\ agents' = [agents EXCEPT ![a] = DeletedAgent(@)]
            /\ reg' = reg \ {a}
            /\ hist' = [hist EXCEPT ![a] = Capped(@)]
            /\ Returned(c, "DeleteAgent", "ok")
       ELSE Returned(c, "DeleteAgent", "err") /\ UNCHANGED <<agents, reg, hist>>
  /\ calls' = calls + 1
  /\ UNCHANGED <<sut, ldrVars, lockVars, now, crashed, nCreated, sups, events>>
  /\ UNCHANGED engVars

\* Manager.ProcessRequest, lines 157-162: GetAgent and the read of Status
PRCall(c, a) ==
  /\ sut = "manager"
  /\ CanCall(c)
  /\ calls' = calls + 1
  /\ IF a \notin reg
       THEN Returned(c, "ProcessRequest", "err")
       ELSE Goto(c, IF agents[a].status # "running" THEN "prStart" ELSE "prReady",
                 [NoLoc EXCEPT !.a = a, !.seen = agents[a].status])
  /\ UNCHANGED <<sut, ldrVars, lockVars, now, crashed>>
  /\ UNCHANGED mgrVars
  /\ UNCHANGED engVars

\* lines 163-168: the call of StartAgent, and the timers of the poll loop
PRStart(c) ==
  /\ ~crashed
  /\ pc[c] = "prStart"
  /\ LET a == loc[c].a IN
       IF StartOk(a)
         THEN /\ DoStart(a)
              /\ Goto(c, "prPoll",
                      [loc[c] EXCEPT !.deadline = now + StartupTimeoutTicks,
                                     !.pollAt = now + PollTicks])
         ELSE /\ Returned(c, "ProcessRequest", "err")
              /\ UNCHANGED <<agents, sups, events, hist>>
  /\ UNCHANGED <<sut, ldrVars, lockVars, now, crashed, reg, nCreated, calls>>
  /\ UNCHANGED engVars

\* lines 172-173: the 30 s timer fired
PRTimeout(c) ==
  /\ ~crashed
  /\ pc[c] = "prPoll"
  /\ now >= loc[c].deadline
  /\ Returned(c, "ProcessRequest", "err")
  /\ UNCHANGED <<sut, ldrVars, lockVars, now, crashed, calls>>
  /\ UNCHANGED mgrVars
  /\ UNCHANGED engVars

\* lines 174-178: a poll.  GetAgent's error is dropped: for an id no longer
\* in the registry agent is nil and agent.Status panics.
PRPoll(c) ==
  /\ ~crashed
  /\ pc[c] = "prPoll"
  /\ now >= loc[c].pollAt
  /\ LET a == loc[c].a IN
       IF a \notin reg
         THEN /\ crashed' = TRUE
              /\ UNCHANGED cliVars
         ELSE /\ crashed' = crashed
              /\ IF agents[a].status = "running"
                   THEN Goto(c, "prReady", loc[c])
                   ELSE Goto(c, "prPoll", [loc[c] EXCEPT !.pollAt = now + PollTicks])
  /\ UNCHANGED <<sut, ldrVars, lockVars, now, calls>>
  /\ UNCHANGED mgrVars
  /\ UNCHANGED engVars

\* lines 184-196: LastActivity, RequestsTotal++, request.started
PRReady(c) ==
  /\ ~crashed
  /\ pc[c] = "prReady"
  /\ LET a == loc[c].a IN
       /\ agents' = [agents EXCEPT ![a].lastActivity = now,
                                   ![a].total = @ + 1]
       /\ events' = publishEvent(events, <<"request.started", a>>)
  /\ Goto(c, "prFinish", loc[c])
  /\ UNCHANGED <<sut, ldrVars, lockVars, now, crashed, reg, nCreated, sups, hist, calls>>
  /\ UNCHANGED engVars

\* lines 198-201: the Response of Manager.ProcessRequest
MockResponse(c) ==
  [id |-> ReqId(c), content |-> "Mock response", toolUses |-> 0, error |-> "",
   metadata |-> FALSE]

\* lines 198-218: RequestsSucceeded++, LastRequestTime, request.ended, return
PRFinish(c) ==
  /\ ~crashed
  /\ pc[c] = "prFinish"
  /\ LET a == loc[c].a IN
       /\ agents' = [agents EXCEPT ![a].succ = @ + 1, ![a].lastReq = now]
       /\ events' = publishEvent(events, <<"request.ended", a>>)
  /\ Replied(c, "ProcessRequest", "ok", MockResponse(c))
  /\ UNCHANGED <<sut, ldrVars, lockVars, now, crashed, reg, nCreated, sups, hist, calls>>
  /\ UNCHANGED engVars

\* ------------------------------------------------- the runAgent goroutine
\* lines 224-234: Status = running, then the idle timer is created
SupStart(a, i) ==
  /\ ~crashed
  /\ sups[a][i].pc = "start"
  /\ agents' = [agents EXCEPT ![a].status = "running", ![a].updatedAt = now]
  /\ sups' = [sups EXCEPT ![a][i] =
                [pc |-> "wait", timer |-> now + idleTimeout(a), la |-> 0]]
  /\ UNCHANGED <<sut, ldrVars, lockVars, now, crashed, reg, nCreated, events, hist, calls>>
  /\ UNCHANGED cliVars
  /\ UNCHANGED engVars

\* lines 239-245: the context is done
SupDone(a, i) ==
  /\ ~crashed
  /\ sups[a][i].pc = "wait"
  /\ agents[a].cancelled
  /\ agents' = [agents EXCEPT ![a].status = "stopped", ![a].updatedAt = now]
  /\ sups' = [sups EXCEPT ![a] = Remove(@, i)]
  /\ UNCHANGED <<sut, ldrVars, lockVars, now, crashed, reg, nCreated, events, hist, calls>>
  /\ UNCHANGED cliVars
  /\ UNCHANGED engVars

\* lines 247-250: the idle timer fired; LastActivity is read
SupTimer(a, i) ==
  /\ ~crashed
  /\ sups[a][i].pc = "wait"
  /\ now >= sups[a][i].timer
  /\ sups' = [sups EXCEPT ![a][i] =
                [@ EXCEPT !.pc = "check", !.la = agents[a].lastActivity]]
  /\ UNCHANGED <<sut, ldrVars, lockVars, now, crashed, reg, nCreated, agents, events, hist, calls>>
  /\ UNCHANGED cliVars
  /\ UNCHANGED engVars

\* lines 252-266: the idle check, Status = idle, agent.idle, the timer reset
SupCheck(a, i) ==
  /\ ~crashed
  /\ sups[a][i].pc = "check"
  /\ IF now - sups[a][i].la >= idleTimeout(a)
       THEN /\ agents' = [agents EXCEPT ![a].status = "idle", ![a].updatedAt = now]
            /\ events' = publishEvent(events, <<"agent.idle", a>>)
       ELSE UNCHANGED <<agents, events>>
  /\ sups' = [sups EXCEPT ![a][i] =
                [pc |-> "wait", timer |-> now + idleTimeout(a), la |-> 0]]
  /\ UNCHANGED <<sut, ldrVars, lockVars, now, crashed, reg, nCreated, hist, calls>>
  /\ UNCHANGED cliVars
  /\ UNCHANGED engVars

\* ------------------------------------------------------ Engine: the API
\* Engine.DeployCluster's check of the name
ClusterExists(n) == clusterReg[n] # 0

\* the model deploys a manifest only while agent ids remain for its agents
IdsLeft(s) ==
  LET Pending(k) == IF clusters[k].fpc = "done" THEN 0
                    ELSE Len(clusters[k].spec.agents) - clusters[k].fi + 1
      SumTo[k \in 0..Len(clusters)] ==
        IF k = 0 THEN 0 ELSE SumTo[k - 1] + Pending(k)
  IN nCreated + SumTo[Len(clusters)] + Len(s.agents) <= Cardinality(AgentIds)

NewCluster(s) ==
  [name |-> s.name, spec |-> s, agents |-> [x \in AgentNames |-> 0],
   status |-> "pending", fpc |-> "start", fi |-> 1, ftmp |-> 0]

\* Engine.DeployCluster, one critical section of e.mu; go startCluster
DeployCluster(c, s) ==
  /\ sut = "engine"
  /\ CanCall(c)
  /\ calls' = calls + 1
  /\ IF ClusterExists(s.name)
       THEN /\ Returned(c, "DeployCluster", "err")
            /\ UNCHANGED engVars
       ELSE /\ IdsLeft(s)
            /\ clusters' = Append(clusters, NewCluster(s))
            /\ clusterReg' = [clusterReg EXCEPT ![s.name] = Len(clusters) + 1]
            /\ metrics' = [metrics EXCEPT !.clustersTotal = @ + 1]
            /\ Returned(c, "DeployCluster", "ok")
  /\ UNCHANGED <<sut, ldrVars, lockVars, now, crashed, resources>>
  /\ UNCHANGED mgrVars

\* startCluster, lines 143-146: Status = running
FanStart(k) ==
  /\ ~crashed
  /\ clusters[k].fpc = "start"
  /\ clusters' = [clusters EXCEPT ![k].status = "running",
                                  ![k].fpc = IF Len(clusters[k].spec.agents) = 0
                                               THEN "done" ELSE "create"]
  /\ UNCHANGED <<sut, ldrVars, lockVars, now, crashed, resources, clusterReg, metrics, calls>>
  /\ UNCHANGED mgrVars
  /\ UNCHANGED cliVars

\* createAgent, lines 166-217: the AgentConfig (Resources is not copied), the
\* tools of the manifest (of type http) registered with the tool manager,
\* Manager.CreateAgent, Name and ClusterName, the cluster's agent map, and the
\* read of AgentsTotal for the unsynchronised AgentsTotal++
FanCreate(k) ==
  /\ ~crashed
  /\ clusters[k].fpc = "create"
  /\ nCreated < Cardinality(AgentIds)
  /\ LET cfg == clusters[k].spec.agents[clusters[k].fi]
         id == generateAgentID
     IN /\ agents' = [agents EXCEPT ![id] =
                        [NewAgent(id, 0, cfg.provider) EXCEPT
                           !.model = cfg.model, !.prompt = cfg.prompt,
                           !.name = cfg.name, !.cluster = clusters[k].name]]
        /\ reg' = reg \cup {id}
        /\ nCreated' = nCreated + 1
        /\ clusters' = [clusters EXCEPT ![k].agents[cfg.name] = id,
                                        ![k].fpc = "count",
                                        ![k].ftmp = metrics.agentsTotal]
        /\ resources' = [resources EXCEPT !.tools = @ \cup cfg.tools]
  /\ UNCHANGED <<sut, ldrVars, lockVars, now, crashed, sups, events, hist, clusterReg, metrics, calls>>
  /\ UNCHANGED cliVars

\* createAgent, line 217: the write of AgentsTotal++; the loop goes on
FanCount(k) ==
  /\ ~crashed
  /\ clusters[k].fpc = "count"
  /\ metrics' = [metrics EXCEPT !.agentsTotal = clusters[k].ftmp + 1]
  /\ clusters' = [clusters EXCEPT ![k].fi = @ + 1, ![k].ftmp = 0,
                                  ![k].fpc = IF clusters[k].fi < Len(clusters[k].spec.agents)
                                               THEN "create" ELSE "done"]
  /\ UNCHANGED <<sut, ldrVars, lockVars, now, crashed, resources, clusterReg, calls>>
  /\ UNCHANGED mgrVars
  /\ UNCHANGED cliVars

\* getCluster
getCluster(n) == clusterReg[n]

\* the agents in a Cluster's map
ClusterAgents(k) == {clusters[k].agents[x] : x \in AgentNames} \ {0}

\* the orders in which a range over a map may visit the set S
Orders(S) == {q \in [1..Cardinality(S) -> S] : \A a \in S : \E i \in DOMAIN q : q[i] = a}

RECURSIVE PublishAll(_, _, _)
PublishAll(q, type, ids) ==
  IF ids = <<>> THEN q
  ELSE PublishAll(publishEvent(q, <<type, Head(ids)>>), type, Tail(ids))

\* Engine.StopCluster, line 346: getCluster
StopClusterCall(c, n) ==
  /\ sut = "engine"
  /\ CanCall(c)
  /\ calls' = calls + 1
  /\ IF getCluster(n) = 0
       THEN Returned(c, "StopCluster", "err")
       ELSE Goto(c, "scStop", [NoLoc EXCEPT !.k = getCluster(n)])
  /\ UNCHANGED <<sut, ldrVars, lockVars, now, crashed>>
  /\ UNCHANGED mgrVars
  /\ UNCHANGED engVars

\* StopCluster, lines 351-371, under cluster.mu: StopAgent on every agent of
\* the map (an unknown id is logged), then Status = stopped
StopEffect(k) ==
  IF clusters[k].status = "stopped"
    THEN UNCHANGED <<agents, events, hist, clusters>>
    ELSE LET known == ClusterAgents(k) \cap reg
             hit == {a \in known : ~AlreadyStopping(agents[a].status)}
         IN /\ agents' = [a \in AgentIds |->
                            IF a \in known THEN StoppedAgent(agents[a])
                            ELSE agents[a]]
            /\ \E q \in Orders(hit) :
                 events' = PublishAll(events, "agent.stopped", q)
            /\ hist' = [a \in AgentIds |->
                          IF a \in known THEN Capped(hist[a]) ELSE hist[a]]
            /\ clusters' = [clusters EXCEPT ![k].status = "stopped"]

StopClusterBody(c) ==
  /\ ~crashed
  /\ pc[c] \in {"scStop", "dcStop", "clStop"}
  /\ StopEffect(loc[c].k)
  /\ CASE pc[c] = "scStop" -> Returned(c, "StopCluster", "ok")
       [] pc[c] = "dcStop" -> Goto(c, "dcRemove", loc[c])
       [] pc[c] = "clStop" -> Goto(c, "clRange", loc[c])
  /\ UNCHANGED <<sut, ldrVars, lockVars, now, crashed, resources, reg, nCreated, sups, clusterReg, metrics, calls>>

\* Engine.DeleteCluster, line 375: StopCluster's getCluster
DeleteClusterCall(c, n) ==
  /\ sut = "engine"
  /\ CanCall(c)
  /\ calls' = calls + 1
  /\ IF getCluster(n) = 0
       THEN Returned(c, "DeleteCluster", "err")
       ELSE Goto(c, "dcStop", [NoLoc EXCEPT !.k = getCluster(n)])
  /\ UNCHANGED <<sut, ldrVars, lockVars, now, crashed>>
  /\ UNCHANGED mgrVars
  /\ UNCHANGED engVars

\* DeleteCluster, line 398: ClustersTotal--
ClusterUncounted(m) == [m EXCEPT !.clustersTotal = @ - 1]

\* DeleteCluster, lines 379-400, under e.mu: the cluster registered under the
\* name now, DeleteAgent on every agent of its map, delete, ClustersTotal--
DeleteClusterRemove(c) ==
  /\ ~crashed
  /\ pc[c] = "dcRemove"
  /\ LET n == clusters[loc[c].k].name
         k == getCluster(n)
     IN IF k = 0
          THEN /\ Returned(c, "DeleteCluster", "err")
               /\ UNCHANGED <<agents, reg, hist, clusterReg, metrics>>
          ELSE LET known == ClusterAgents(k) \cap reg IN
               /\ agents' = [a \in AgentIds |->
                               IF a \in known THEN DeletedAgent(agents[a])
                               ELSE agents[a]]
               /\ reg' = reg \ known
               /\ hist' = [a \in AgentIds |->
                             IF a \in known THEN Capped(hist[a]) ELSE hist[a]]
               /\ clusterReg' = [clusterReg EXCEPT ![n] = 0]
               /\ metrics' = ClusterUncounted(metrics)
               /\ Returned(c, "DeleteCluster", "ok")
  /\ UNCHANGED <<sut, ldrVars, lockVars, now, crashed, resources, nCreated, sups, events, clusters, calls>>

\* Engine.ProcessRequest, lines 228-250: the cluster, the agent, the
\* provider, then RequestsTotal++
EPRTarget(n, x) ==
  IF getCluster(n) = 0 THEN 0 ELSE clusters[getCluster(n)].agents[x]

ProviderAvailable(a) == agents[a].provider \in RegisteredProviders

\* lines 247-250: RequestsTotal++ under metrics.mu
Counted(m) == [m EXCEPT !.total = @ + 1]

\* Request.Timeout, chosen by the caller, in ticks: the first client sets
\* none
ReqTimeout(c) == IF c = "c1" THEN 0 ELSE 1

\* Request.Messages, chosen by the caller
ReqMessages(c) ==
  IF c = "c1" THEN <<[id |-> "1", role |-> "user", content |-> "a"]>>
  ELSE <<[id |-> "1", role |-> "user", content |-> "a"],
         [id |-> "2", role |-> "assistant", content |-> "b"],
         [id |-> "3", role |-> "user", content |-> "c"]>>

\* lines 253-272: Role and Content of each message copied in order, then
\* the system prompt, when there is one, put in front
ChatMessages(prompt, msgs) ==
  LET copied == [i \in 1..Len(msgs) |->
                   [role |-> msgs[i].role, content |-> msgs[i].content]]
  IN IF prompt # "" THEN <<[role |-> "system", content |-> prompt]>> \o copied
     ELSE copied

\* a context without a deadline
NoDeadline == -1

\* lines 274-279: context.Background(), or WithTimeout when the request
\* sets a timeout
ChatDeadline(t) == IF t > 0 THEN now + t ELSE NoDeadline

EPRCall(c, n, x) ==
  /\ sut = "engine"
  /\ CanCall(c)
  /\ calls' = calls + 1
  /\ LET a == EPRTarget(n, x) IN
       IF a = 0 \/ ~ProviderAvailable(a)
         THEN /\ Returned(c, "ProcessRequest", "err")
              /\ UNCHANGED metrics
         ELSE /\ metrics' = Counted(metrics)
              /\ Goto(c, "eprChat",
                      [NoLoc EXCEPT
                         !.a = a, !.start = now,
                         !.deadline = ChatDeadline(ReqTimeout(c)),
                         !.chat = [model |-> agents[a].model,
                                   messages |-> ChatMessages(agents[a].prompt,
                                                             ReqMessages(c))]])
  /\ UNCHANGED <<sut, ldrVars, lockVars, now, crashed, resources, clusterReg, clusters>>
  /\ UNCHANGED mgrVars

\* lines 304-312: the Response built from the provider's answer
OkResponse(c) ==
  [id |-> ReqId(c), content |-> "text", toolUses |-> 0, error |-> "",
   metadata |-> TRUE]

\* lines 288-291: the Response that carries the provider's error
FailResponse(c) ==
  [id |-> ReqId(c), content |-> "", toolUses |-> 0, error |-> "provider error",
   metadata |-> FALSE]

\* line 297: AverageResponseTime = (AverageResponseTime + duration) / 2
NewAverage(avg, d) == (avg + d) \div 2

\* Agent.UpdateLastActivity, line 304: time.Now(); the request began at
\* start
ActivityTime(start) == now

\* lines 282-314: the provider answered: RequestsSucceeded++, the average,
\* UpdateLastActivity, the response
EPRChatOk(c) ==
  /\ ~crashed
  /\ pc[c] = "eprChat"
  /\ metrics' = [metrics EXCEPT !.succ = @ + 1,
                                !.avg = NewAverage(@, now - loc[c].start)]
  /\ agents' = [agents EXCEPT ![loc[c].a].lastActivity = ActivityTime(loc[c].start)]
  /\ Replied(c, "ProcessRequest", "ok", OkResponse(c))
  /\ UNCHANGED <<sut, ldrVars, lockVars, now, crashed, resources, reg, nCreated, sups, events, hist,
                 clusterReg, clusters, calls>>

\* lines 283-292: the provider failed: RequestsFailed++, a Response that
\* carries the error
EPRChatFail(c) ==
  /\ ~crashed
  /\ pc[c] = "eprChat"
  /\ metrics' = [metrics EXCEPT !.fail = @ + 1]
  /\ Replied(c, "ProcessRequest", "soft", FailResponse(c))
  /\ UNCHANGED <<sut, ldrVars, lockVars, now, crashed, resources, clusterReg, clusters, calls>>
  /\ UNCHANGED mgrVars

\* the names in Engine.clusters
Registered == {n \in ClusterNames : ClusterExists(n)}

\* the calls of Close so far (counted up to one)
Closes ==
  IF resources.provClosed # {} \/ \E c \in Clients : pc[c] \in {"clRange", "clStop"}
    THEN 1 ELSE 0

\* Engine.Close, line 415: the range over e.clusters begins (e.mu is not
\* taken)
CloseCall(c) ==
  /\ sut = "engine"
  /\ CanCall(c)
  /\ Closes < MaxCloses
  /\ calls' = calls + 1
  /\ Goto(c, "clRange", [NoLoc EXCEPT !.todo = Registered])
  /\ UNCHANGED <<sut, ldrVars, lockVars, now, crashed>>
  /\ UNCHANGED mgrVars
  /\ UNCHANGED engVars

\* lines 415-416: the range yields a name not yet visited, in any order;
\* StopCluster's getCluster.  A name added to the map during the range may
\* be visited.
CloseNext(c) ==
  /\ ~crashed
  /\ pc[c] = "clRange"
  /\ \E n \in Registered \ loc[c].done :
       Goto(c, "clStop", [loc[c] EXCEPT !.k = getCluster(n), !.done = @ \cup {n}])
  /\ UNCHANGED <<sut, ldrVars, lockVars, now, crashed, calls>>
  /\ UNCHANGED mgrVars
  /\ UNCHANGED engVars

\* the range may end once every name that was in the map when it began, and
\* still is, has been visited
RangeOver(c) == (loc[c].todo \cap Registered) \subseteq loc[c].done

\* lines 423-426: providerManager.Close; each provider's Close returns nil
CloseProviders(c) ==
  /\ ~crashed
  /\ pc[c] = "clRange"
  /\ RangeOver(c)
  /\ resources' = [resources EXCEPT !.provClosed = RegisteredProviders]
  /\ Goto(c, "clTools", loc[c])
  /\ UNCHANGED <<sut, ldrVars, lockVars, now, crashed, clusterReg, clusters, metrics, calls>>
  /\ UNCHANGED mgrVars

\* lines 428-433: toolManager.Close (an HTTPTool's Close returns nil), and
\* Close returns nil
CloseTools(c) ==
  /\ ~crashed
  /\ pc[c] = "clTools"
  /\ resources' = [resources EXCEPT !.toolsClosed = resources.tools]
  /\ Returned(c, "Close", "ok")
  /\ UNCHANGED <<sut, ldrVars, lockVars, now, crashed, clusterReg, clusters, metrics, calls>>
  /\ UNCHANGED mgrVars

\* GetMetrics, lines 407-408: metrics := *e.metrics; return &metrics -- the
\* pointer returned refers to a copy
SnapshotRef == "copy"

\* the snapshots handed out so far
Snapshots == Cardinality({c \in Clients : snap[c].ref # "none"})

\* Engine.GetMetrics, under metrics.mu
GetMetrics(c) ==
  /\ sut = "engine"
  /\ CanCall(c)
  /\ Snapshots < MaxSnapshots
  /\ calls' = calls + 1
  /\ snap' = [snap EXCEPT ![c] = [ref |-> SnapshotRef, val |-> metrics]]
  /\ ret' = [ret EXCEPT ![c] = [op |-> "GetMetrics", res |-> "ok"]]
  /\ resp' = [resp EXCEPT ![c] = NoResp]
  /\ UNCHANGED <<sut, ldrVars, lockVars, now, crashed, pc, loc>>
  /\ UNCHANGED mgrVars
  /\ UNCHANGED engVars

\* the Metrics a client reads through the pointer it holds
Seen(c) == IF snap[c].ref = "live" THEN metrics ELSE snap[c].val

\* the caller of GetMetrics writes to the Metrics it was handed (it sets
\* RequestsTotal to -1, once)
WriteSnapshot(c) ==
  /\ ~crashed
  /\ pc[c] = "idle"
  /\ snap[c].ref # "none"
  /\ Seen(c).total # -1
  /\ IF snap[c].ref = "live"
       THEN /\ metrics' = [metrics EXCEPT !.total = -1]
            /\ snap' = snap
       ELSE /\ snap' = [snap EXCEPT ![c].val.total = -1]
            /\ metrics' = metrics
  /\ UNCHANGED <<sut, ldrVars, lockVars, now, crashed, resources, clusterReg, clusters, pc, loc, ret, resp, calls>>
  /\ UNCHANGED mgrVars

\* a consumer of Events() receives the oldest event of the channel; the
\* consumer modelled is a slow one, that lets the channel fill up
Receive ==
  /\ ~crashed
  /\ sut = "manager"
  /\ Len(events) > EventCap - MaxReceives
  /\ events' = Tail(events)
  /\ UNCHANGED <<sut, ldrVars, lockVars, now, crashed, reg, nCreated, agents, sups, hist, calls>>
  /\ UNCHANGED cliVars
  /\ UNCHANGED engVars

\* ------------------------------------------------------------- the clock
\* a goroutine with an immediate step, or a timer that is due
SupDue(a, i) ==
  \/ sups[a][i].pc \in {"start", "check"}
  \/ sups[a][i].pc = "wait" /\ (agents[a].cancelled \/ now >= sups[a][i].timer)

\* a client in the middle of a call that waits for nothing, or with a timer
\* that is due (a provider call in flight may take any time up to the
\* deadline of its context)
ClientDue(c) ==
  \/ pc[c] \in {"prStart", "prReady", "prFinish", "scStop", "dcStop", "dcRemove",
              "clRange", "clStop", "clTools"}
  \/ pc[c] = "prPoll" /\ (now >= loc[c].pollAt \/ now >= loc[c].deadline)
  \/ pc[c] = "eprChat" /\ loc[c].deadline # NoDeadline /\ now >= loc[c].deadline

Tick ==
  /\ ~crashed
  /\ now < MaxTime
  /\ \A a \in AgentIds : \A i \in 1..Len(sups[a]) : ~SupDue(a, i)
  /\ \A c \in Clients : ~ClientDue(c)
  /\ \A k \in 1..Len(clusters) : clusters[k].fpc = "done"
  /\ now' = now + 1
  /\ UNCHANGED <<sut, ldrVars, lockVars, crashed, calls>>
  /\ UNCHANGED mgrVars
  /\ UNCHANGED engVars
  /\ UNCHANGED cliVars

\* ------------------------------------------------------------------- Next
ManagerNext ==
  \/ \E c \in Clients, t \in IdleTimeouts : CreateAgent(c, t)
  \/ \E c \in Clients, a \in AgentIds : StartAgent(c, a)
  \/ \E c \in Clients, a \in AgentIds : StopAgent(c, a)
  \/ \E c \in Clients, a \in AgentIds : DeleteAgent(c, a)
  \/ \E c \in Clients, a \in AgentIds : PRCall(c, a)
  \/ \E c \in Clients : PRStart(c)
  \/ \E c \in Clients : PRTimeout(c)
  \/ \E c \in Clients : PRPoll(c)
  \/ \E c \in Clients : PRReady(c)
  \/ \E c \in Clients : PRFinish(c)
  \/ \E a \in AgentIds : \E i \in 1..Len(sups[a]) : SupStart(a, i)
  \/ \E a \in AgentIds : \E i \in 1..Len(sups[a]) : SupDone(a, i)
  \/ \E a \in AgentIds : \E i \in 1..Len(sups[a]) : SupTimer(a, i)
  \/ \E a \in AgentIds : \E i \in 1..Len(sups[a]) : SupCheck(a, i)

\* the cluster lifecycle
LifecycleNext ==
  \/ \E c \in Clients, s \in ClusterSpecs : DeployCluster(c, s)
  \/ \E k \in 1..Len(clusters) : FanStart(k)
  \/ \E k \in 1..Len(clusters) : FanCreate(k)
  \/ \E k \in 1..Len(clusters) : FanCount(k)
  \/ \E c \in Clients, n \in ClusterNames : StopClusterCall(c, n)
  \/ \E c \in Clients : StopClusterBody(c)
  \/ \E c \in Clients, n \in ClusterNames : DeleteClusterCall(c, n)
  \/ \E c \in Clients : DeleteClusterRemove(c)

\* requests
RequestNext ==
  \/ \E c \in Clients, n \in ClusterNames, x \in AgentNames : EPRCall(c, n, x)
  \/ \E c \in Clients : EPRChatOk(c)
  \/ \E c \in Clients : EPRChatFail(c)

\* shutdown
ShutdownNext ==
  \/ \E c \in Clients : CloseCall(c)
  \/ \E c \in Clients : CloseNext(c)
  \/ \E c \in Clients : CloseProviders(c)
  \/ \E c \in Clients : CloseTools(c)

\* the counters read by a caller
MetricsNext ==
  \/ \E c \in Clients : GetMetrics(c)
  \/ \E c \in Clients : WriteSnapshot(c)

EngineNext == LifecycleNext \/ RequestNext \/ ShutdownNext \/ MetricsNext

Next == ManagerNext \/ EngineNext \/ Receive \/ Tick

Spec == Init /\ [][Next]_vars

\* a standalone Manager only
InitManager == Init /\ sut = "manager"

SpecManager == InitManager /\ [][ManagerNext \/ Tick]_vars

\* the channel after n events of agents since deleted (id 0) that no consumer
\* has received
Backlog(n) ==
  [i \in 1..n |-> IF i % 2 = 1 THEN <<"agent.started", 0>>
                              ELSE <<"agent.stopped", 0>>]

\* a Manager whose event channel is full or nearly so
InitEvents ==
  /\ sut = "manager"
  /\ \E n \in (EventCap - MaxFreeSlots)..EventCap : Fresh(Backlog(n))
  /\ manifest = NoManifest

\* the agent lifecycle, with a consumer of the events
SpecEvents ==
  InitEvents /\ [][\/ \E c \in Clients, t \in IdleTimeouts : CreateAgent(c, t)
                   \/ \E c \in Clients, a \in AgentIds : StartAgent(c, a)
                   \/ \E c \in Clients, a \in AgentIds : StopAgent(c, a)
                   \/ \E a \in AgentIds : \E i \in 1..Len(sups[a]) : SupStart(a, i)
                   \/ \E a \in AgentIds : \E i \in 1..Len(sups[a]) : SupDone(a, i)
                   \/ \E a \in AgentIds : \E i \in 1..Len(sups[a]) : SupTimer(a, i)
                   \/ \E a \in AgentIds : \E i \in 1..Len(sups[a]) : SupCheck(a, i)
                   \/ Receive
                   \/ Tick]_vars

\* a Manager whose callers create agents from any config
SpecCreate ==
  InitManager /\ [][\/ \E c \in Clients, cfg \in AgentConfigs : CreateAgentCfg(c, cfg)
                    \/ \E c \in Clients, a \in AgentIds : StartAgent(c, a)
                    \/ \E c \in Clients, a \in AgentIds : StopAgent(c, a)
                    \/ \E c \in Clients, a \in AgentIds : DeleteAgent(c, a)
                    \/ \E a \in AgentIds : \E i \in 1..Len(sups[a]) : SupStart(a, i)
                    \/ \E a \in AgentIds : \E i \in 1..Len(sups[a]) : SupDone(a, i)]_vars

\* an Engine only
InitEngine == Init /\ sut = "engine"

\* an Engine whose callers deploy, stop and delete clusters and send requests
SpecEngine == InitEngine /\ [][LifecycleNext \/ RequestNext \/ Tick]_vars

\* the same, with callers that also read the metrics
SpecMetrics ==
  InitEngine /\ [][LifecycleNext \/ RequestNext \/ MetricsNext \/ Tick]_vars

\* a Manager, or an Engine whose callers deploy, stop and delete clusters and
\* send requests
SpecCore ==
  Init /\ [][ManagerNext \/ LifecycleNext \/ RequestNext \/ Tick]_vars

\* an Engine that is shut down while clusters are deployed, stopped and
\* deleted; none of these steps waits for a timer, and the clock stands still
SpecShutdown == InitEngine /\ [][LifecycleNext \/ ShutdownNext]_vars

\* ------------------------------------------------- the configuration Loader
\* agents in a manifest, and entries in an agent's depends_on
MaxManifestAgents == 2
MaxDeps == 1

\* the sequences over S of at most n elements
SeqsUpTo(S, n) == UNION {[1..k -> S] : k \in 0..n}

\* the agents a manifest may declare ("z" names no agent of a manifest)
ManifestAgents ==
  [name : {"x", "y"}, provider : {"anthropic", "mock"}, model : {"m1", ""},
   dependsOn : SeqsUpTo({"x", "y", "z"}, MaxDeps)]

\* the manifests handed to the Loader
Manifests ==
  [name : {"k1", ""}, agents : SeqsUpTo(ManifestAgents, MaxManifestAgents)]

\* isValidProvider
isValidProvider(p) == p \in {"anthropic", "openai", "gemini"}

\* validateAgentCluster, lines 142-169: the agents in declaration order;
\* agentNames holds the names met so far, the agent's own included
RECURSIVE validateAgents(_, _)
validateAgents(as, agentNames) ==
  IF as = <<>> THEN "ok"
  ELSE LET agent == Head(as)
           names == agentNames \cup {agent.name}
       IN IF agent.name = "" THEN "err"
          ELSE IF agent.name \in agentNames THEN "err"
          ELSE IF agent.provider = "" THEN "err"
          ELSE IF agent.model = "" THEN "err"
          ELSE IF ~isValidProvider(agent.provider) THEN "err"
          ELSE IF \E i \in DOMAIN agent.dependsOn :
                    agent.dependsOn[i] \notin names /\ agent.dependsOn[i] # agent.name
                 THEN "err"
          ELSE validateAgents(Tail(as), names)

\* validateAgentCluster, lines 120-171
validateAgentCluster(m) ==
  IF m.name = "" THEN "err"
  ELSE IF Len(m.agents) = 0 THEN "err"
  ELSE validateAgents(m.agents, {})

\* LoadAgentCluster, line 82: the manifest read from the file is validated
LoadAgentCluster(c) ==
  /\ CanCall(c)
  /\ calls' = calls + 1
  /\ Returned(c, "LoadAgentCluster", validateAgentCluster(manifest))
  /\ UNCHANGED <<sut, ldrVars, lockVars, now, crashed>>
  /\ UNCHANGED mgrVars
  /\ UNCHANGED engVars

\* a Loader handed any manifest
InitLoader == sut = "loader" /\ Fresh(<<>>) /\ manifest \in Manifests

SpecLoader == InitLoader /\ [][\E c \in Clients : LoadAgentCluster(c)]_vars

\* -------------------------------------------------------------- the locks
\* iterations of a loop over a cluster's agents, and of runAgent's timer loop
MaxLoops == 1

\* Engine.mu, Cluster.mu, Manager.mu, Agent.mu, Metrics.mu
ClusterLocks == {"k1.mu", "k2.mu"}
LockIds == {"e.mu", "m.mu", "a1.mu", "metrics.mu"} \cup ClusterLocks

\* mu.Lock() ... mu.Unlock() around the lock operations of the body
Locked(l, body) == <<<<"Lock", l>>>> \o body \o <<<<"Unlock", l>>>>

\* mu.RLock() ... mu.RUnlock()
RLocked(l, body) == <<<<"RLock", l>>>> \o body \o <<<<"RUnlock", l>>>>

RECURSIVE Times(_, _)
Times(n, body) == IF n = 0 THEN <<>> ELSE body \o Times(n - 1, body)

\* Manager.CreateAgent, StartAgent, StopAgent (cancel and publishEvent take
\* no lock) and DeleteAgent: one section of m.mu each
CreateAgentLocks == Locked("m.mu", <<>>)
StartAgentLocks == Locked("m.mu", <<>>)
StopAgentLocks == Locked("m.mu", <<>>)
DeleteAgentLocks == Locked("m.mu", <<>>)

\* runAgent: Status = running; n times the timer, that reads LastActivity
\* and may set Status = idle; ctx.Done, Status = stopped
runAgentLocks(n) ==
  Locked("a1.mu", <<>>)
    \o Times(n, Locked("a1.mu", <<>>) \o Locked("a1.mu", <<>>))
    \o Locked("a1.mu", <<>>)

\* Engine.getCluster, ListClusters, GetMetrics, DeployCluster
getClusterLocks == RLocked("e.mu", <<>>)
ListClustersLocks == RLocked("e.mu", <<>>)
GetMetricsLocks == RLocked("metrics.mu", <<>>)
DeployClusterLocks == Locked("e.mu", <<>>)

\* startCluster on a cluster of n agents: Status = running, then createAgent
\* for each: Manager.CreateAgent, then the cluster's agent map
startClusterLocks(k, n) ==
  Locked(k, <<>>) \o Times(n, CreateAgentLocks \o Locked(k, <<>>))

\* Engine.StopCluster on a cluster of n agents (none: the cluster is stopped
\* already): getCluster, then StopAgent for each under cluster.mu
StopClusterLocks(k, n) ==
  getClusterLocks \o Locked(k, Times(n, StopAgentLocks))

\* DeleteCluster that calls StopCluster with e.mu held
DeleteClusterLocks_Nested(k, n) ==
  Locked("e.mu", StopClusterLocks(k, n) \o Times(n, DeleteAgentLocks))

\* Engine.DeleteCluster: StopCluster, then DeleteAgent for each under e.mu
DeleteClusterLocks(k, n) ==
  StopClusterLocks(k, n) \o Locked("e.mu", Times(n, DeleteAgentLocks))

\* Engine.ProcessRequest: getCluster, the cluster's agent map, RequestsTotal,
\* then RequestsFailed, or RequestsSucceeded and UpdateLastActivity
ProcessRequestLocks(k, ok) ==
  getClusterLocks \o RLocked(k, <<>>) \o Locked("metrics.mu", <<>>)
    \o Locked("metrics.mu", <<>>)
    \o (IF ok THEN Locked("a1.mu", <<>>) ELSE <<>>)

\* what a goroutine may run
Operations ==
  {DeployClusterLocks, ListClustersLocks, GetMetricsLocks, getClusterLocks,
   StartAgentLocks}
    \cup {startClusterLocks(k, n) : k \in ClusterLocks, n \in 1..MaxLoops}
    \cup {StopClusterLocks(k, n) : k \in ClusterLocks, n \in 0..MaxLoops}
    \cup {DeleteClusterLocks(k, n) : k \in ClusterLocks, n \in 0..MaxLoops}
    \cup {ProcessRequestLocks(k, ok) : k \in ClusterLocks, ok \in BOOLEAN}
    \cup {runAgentLocks(n) : n \in 0..MaxLoops}

Holders(l) == {h \in held : h[2] = l}

\* a writer that has called Lock and waits for the lock to be free
Announced(l) == \E u \in Threads : prog[u] # <<>> /\ Head(prog[u]) = <<"Wait", l>>

\* the thread's next lock operation can complete
CanStep(t) ==
  /\ prog[t] # <<>>
  /\ LET o == Head(prog[t]) IN
       CASE o[1] = "Wait" -> Holders(o[2]) = {}
         [] o[1] = "RLock" ->
              (\A h \in Holders(o[2]) : h[3] = "r") /\ ~Announced(o[2])
         [] OTHER -> TRUE

\* a goroutine starts an API call, a startCluster or a runAgent
Begin(t, p) ==
  /\ ~crashed
  /\ prog[t] = <<>>
  /\ prog' = [prog EXCEPT ![t] = p]
  /\ UNCHANGED <<sut, ldrVars, now, crashed, calls, held>>
  /\ UNCHANGED mgrVars
  /\ UNCHANGED engVars
  /\ UNCHANGED cliVars

\* sync.RWMutex: Lock announces the writer, which keeps later readers out,
\* and then waits for the holders to leave; RLock waits for the writer that
\* holds the lock or is announced
LockStep(t) ==
  /\ ~crashed
  /\ CanStep(t)
  /\ LET o == Head(prog[t]) IN
       /\ prog' = [prog EXCEPT ![t] = IF o[1] = "Lock"
                                        THEN <<<<"Wait", o[2]>>>> \o Tail(@)
                                        ELSE Tail(@)]
       /\ held' = CASE o[1] = "Wait" -> held \cup {<<t, o[2], "w">>}
                    [] o[1] = "RLock" -> held \cup {<<t, o[2], "r">>}
                    [] o[1] = "Unlock" -> held \ {<<t, o[2], "w">>}
                    [] o[1] = "RUnlock" -> held \ {<<t, o[2], "r">>}
                    [] OTHER -> held
  /\ UNCHANGED <<sut, ldrVars, now, crashed, calls>>
  /\ UNCHANGED mgrVars
  /\ UNCHANGED engVars
  /\ UNCHANGED cliVars

\* an Engine as its goroutines take and release its locks
SpecLocks ==
  InitEngine /\ [][\/ \E t \in Threads, p \in Operations : Begin(t, p)
                   \/ \E t \in Threads : LockStep(t)]_vars

\* ================================================================ properties
\* a call of Manager.ProcessRequest by client c returns in this step
PRReturns(c) == pc[c] \in {"prStart", "prPoll", "prFinish"} /\ pc'[c] = "idle"

\* agent a has been started and neither StopAgent nor DeleteAgent has been
\* called on it since
StartedUntouched(a) == hist[a] = 0 /\ agents[a].status \notin {"none", "pending"}

\* C1: after CreateAgent and StartAgent, the one call of ProcessRequest on
\* the agent (no StopAgent, no DeleteAgent, no other request on it) returns
\* without error, with the agent running and its RequestsTotal equal to 1,
\* whatever the supervisor goroutine has done by then.
C1_FirstRequestServed ==
  [][\A c \in Clients :
       LET a == loc[c].a IN
       ( /\ PRReturns(c)
         /\ loc[c].seen \in {"starting", "running"}
         /\ hist[a] = 0 /\ hist'[a] = 0
         /\ \A d \in Clients \ {c} : loc[d].a # a
         /\ agents[a].total = IF pc[c] = "prFinish" THEN 1 ELSE 0 )
       => /\ ret'[c] = [op |-> "ProcessRequest", res |-> "ok"]
          /\ agents'[a].status = "running"
          /\ agents'[a].total = 1]_vars

\* C2: ProcessRequest on a registered agent that it finds idle (no StopAgent
\* or DeleteAgent called on the agent) returns without error.
C2_IdleIsServable ==
  [][\A c \in Clients :
       LET a == loc[c].a IN
       ( /\ PRReturns(c)
         /\ loc[c].seen = "idle"
         /\ hist[a] = 0 /\ hist'[a] = 0 )
       => ret'[c] = [op |-> "ProcessRequest", res |-> "ok"]]_vars

\* C3: an agent that has been started, from pending or from stopped, and on
\* which neither StopAgent nor DeleteAgent has been called since, is
\* starting, running or idle: it does not fall back to stopped by itself.
C3_StartedStaysUp ==
  \A a \in AgentIds :
    StartedUntouched(a) => agents[a].status \in {"starting", "running", "idle"}

\* C4: once StopAgent has been called twice on a registered agent, whatever
\* its status was (pending included), and nothing is left to run for the agent
\* (no supervisor goroutine, no request in progress), the agent is stopped.
C4_StoppedTwiceIsStopped ==
  \A a \in reg :
    ( /\ hist[a] = 2
      /\ sups[a] = <<>>
      /\ \A c \in Clients : loc[c].a # a )
    => agents[a].status = "stopped"

\* C5: when Engine.ProcessRequest returns a successful response for an agent
\* of a deployed cluster, the agent is running and its own RequestsTotal has
\* been incremented.
C5_EngineRequestThroughManager ==
  [][\A c \in Clients :
       LET a == loc[c].a IN
       ( /\ pc[c] = "eprChat"
         /\ pc'[c] = "idle"
         /\ ret'[c].res = "ok" )
       => /\ agents'[a].status = "running"
          /\ agents'[a].total = agents[a].total + 1]_vars

\* C6: RequestsSucceeded + RequestsFailed <= RequestsTotal in every reachable
\* state, for the engine's metrics and for every agent's metrics.
C6_MetricsBounded ==
  /\ metrics.succ + metrics.fail <= metrics.total
  /\ \A a \in AgentIds : agents[a].succ + agents[a].fail <= agents[a].total

\* two engine requests in flight at once, then one answered and one failed
C6_Witness ==
  /\ metrics.total = 2
  /\ metrics.succ = 1
  /\ metrics.fail = 1

\* C7: DeployCluster of a registered name returns an error and leaves the
\* registry, every Cluster object and the metrics unchanged; DeployCluster of
\* an unregistered name succeeds and registers it, so of several calls with
\* one name exactly one succeeds.
C7_DuplicateDeployRejected ==
  [][\A c \in Clients, s \in ClusterSpecs :
       DeployCluster(c, s)
       => IF clusterReg[s.name] # 0
            THEN /\ ret'[c] = [op |-> "DeployCluster", res |-> "err"]
                 /\ UNCHANGED <<clusterReg, clusters, metrics>>
            ELSE /\ ret'[c] = [op |-> "DeployCluster", res |-> "ok"]
                 /\ clusterReg'[s.name] # 0
                 /\ metrics'.clustersTotal = metrics.clustersTotal + 1]_vars

\* both clients deployed the same name at once: one succeeded, one failed,
\* and one cluster is registered
C7_Witness ==
  /\ ret["c1"] = [op |-> "DeployCluster", res |-> "ok"]
  /\ ret["c2"] = [op |-> "DeployCluster", res |-> "err"]
  /\ calls = 2
  /\ Len(clusters) = 1
  /\ metrics.clustersTotal = 1

\* C8: Engine.ProcessRequest for an unknown cluster, an unknown agent of the
\* cluster, or an agent whose provider is not registered returns an error at
\* once (no provider call is in flight) and changes no agent and no metric.
C8_EngineErrorChangesNothing ==
  [][\A c \in Clients, n \in ClusterNames, x \in AgentNames :
       ( /\ EPRCall(c, n, x)
         /\ \/ EPRTarget(n, x) = 0
            \/ agents[EPRTarget(n, x)].provider \notin RegisteredProviders )
       => /\ ret'[c] = [op |-> "ProcessRequest", res |-> "err"]
          /\ pc'[c] = "idle"
          /\ UNCHANGED <<agents, metrics, clusters, clusterReg>>]_vars

\* a request for a deployed agent whose provider is not registered has failed
C8_Witness ==
  /\ sut = "engine"
  /\ \E c \in Clients : ret[c] = [op |-> "ProcessRequest", res |-> "err"]
  /\ \E a \in reg : agents[a].provider \notin RegisteredProviders
  /\ calls = 2

\* C9: DeleteAgent of an id that is not in the registry returns an error and
\* changes neither the registry nor any Agent object (no status, no context).
C9_DeleteUnknown ==
  [][\A c \in Clients, a \in AgentIds :
       (DeleteAgent(c, a) /\ a \notin reg)
       => /\ ret'[c] = [op |-> "DeleteAgent", res |-> "err"]
          /\ UNCHANGED <<reg, agents>>]_vars

\* DeleteAgent of an unknown id has failed while another agent is registered
\* and running
C9_Witness ==
  /\ \E c \in Clients : ret[c] = [op |-> "DeleteAgent", res |-> "err"]
  /\ \E a \in reg : agents[a].status = "running" /\ ~agents[a].cancelled
  /\ calls = 3

\* C10: a running agent (started, no StopAgent or DeleteAgent since) whose
\* LastActivity is at least its idle timeout T old, and that receives no
\* request, becomes idle, and does so no later than T after the first instant
\* at which it was both running and that old.
Later(x, y) == IF x >= y THEN x ELSE y

C10_IdleWithinPeriod ==
  [][\A a \in reg :
       ( /\ agents[a].status = "running"
         /\ now - agents[a].lastActivity >= idleTimeout(a)
         /\ hist[a] = 0 /\ hist'[a] = 0
         /\ agents'[a].lastActivity = agents[a].lastActivity )
       => \/ agents'[a].status = "idle"
          \/ /\ agents'[a].status = "running"
             /\ now' <= Later(agents[a].lastActivity + idleTimeout(a),
                              agents[a].updatedAt) + idleTimeout(a)]_vars

\* C11: Manager.ProcessRequest never crashes the process (no nil agent is
\* dereferenced while it polls, also when DeleteAgent removes the agent
\* meanwhile), and it never polls beyond the startup bound.
C11_RequestNeverCrashes ==
  /\ ~crashed
  /\ \A c \in Clients : pc[c] = "prPoll" => now <= loc[c].deadline

\* a Cluster object that DeleteCluster has removed from the registry
Deleted(k) == clusterReg[clusters[k].name] # k

\* C12: once DeleteCluster has removed a cluster, no agent created for that
\* cluster is in the agent manager's registry, whatever the cluster's fan-out
\* goroutine does and when.
C12_DeletedClusterLeavesNoAgent ==
  \A k \in 1..Len(clusters) : Deleted(k) => ClusterAgents(k) \cap reg = {}

\* nothing is left to run for the agents of Cluster object k: its fan-out
\* has ended and none of its agents has a supervisor goroutine
Settled(k) ==
  /\ clusters[k].fpc = "done"
  /\ \A a \in ClusterAgents(k) : sups[a] = <<>>

\* C13: a cluster that StopCluster has set to stopped stays stopped (the
\* fan-out does not set it back to running), and once nothing is left to run
\* for its agents, every agent of the cluster is stopped, those that were
\* pending and those the fan-out registered later included.
C13_StoppedClusterStaysStopped ==
  [][\A k \in 1..Len(clusters) :
       clusters[k].status = "stopped"
       => /\ clusters'[k].status = "stopped"
          /\ Settled(k) =>
               \A a \in ClusterAgents(k) \cap reg : agents[a].status = "stopped"]_vars

\* C16: none of the engine's counters ClustersTotal, AgentsTotal,
\* RequestsTotal, RequestsSucceeded, RequestsFailed ever decreases.
C16_CountersMonotonic ==
  [][/\ metrics'.clustersTotal >= metrics.clustersTotal
     /\ metrics'.agentsTotal >= metrics.agentsTotal
     /\ metrics'.total >= metrics.total
     /\ metrics'.succ >= metrics.succ
     /\ metrics'.fail >= metrics.fail]_vars

\* C18: StartAgent on an unknown id, or on an agent that is starting,
\* stopping or failed, returns an error and changes no agent, spawns no
\* supervisor goroutine and publishes no event.
C18_StartRejected ==
  [][\A c \in Clients, a \in AgentIds :
       ( /\ StartAgent(c, a)
         /\ \/ a \notin reg
            \/ agents[a].status \in {"starting", "stopping", "failed"} )
       => /\ ret'[c] = [op |-> "StartAgent", res |-> "err"]
          /\ UNCHANGED <<reg, agents, sups, events>>]_vars

\* StartAgent has been refused for an agent that another StartAgent had just
\* moved to starting
C18_Witness ==
  /\ ret["c1"] = [op |-> "StartAgent", res |-> "ok"]
  /\ ret["c2"] = [op |-> "StartAgent", res |-> "err"]
  /\ calls = 3
  /\ agents[1].status = "starting"
  /\ Len(sups[1]) = 1

\* C19: StartAgent on a registered agent that is running or idle returns
\* without error and changes nothing.
C19_StartWhenUpIsNoOp ==
  [][\A c \in Clients, a \in AgentIds :
       ( /\ StartAgent(c, a)
         /\ a \in reg
         /\ agents[a].status \in {"running", "idle"} )
       => /\ ret'[c] = [op |-> "StartAgent", res |-> "ok"]
          /\ UNCHANGED <<agents, sups>>]_vars

\* C20: when two calls of ProcessRequest have both found the same agent
\* pending (never started, never stopped or deleted), each of them returns
\* without error.
C20_ConcurrentRequestsServed ==
  [][\A c \in Clients :
       LET a == loc[c].a IN
       ( /\ PRReturns(c)
         /\ loc[c].seen = "pending"
         /\ hist[a] = 0 /\ hist'[a] = 0
         /\ \E d \in Clients \ {c} : loc[d].a = a /\ loc[d].seen = "pending" )
       => ret'[c] = [op |-> "ProcessRequest", res |-> "ok"]]_vars

\* C14: when the provider call fails, Engine.ProcessRequest returns no error
\* and a Response that carries the request's id and a non-empty Error and
\* nothing else; RequestsFailed is incremented and RequestsSucceeded is not.
C14_SoftFailure ==
  [][\A c \in Clients :
       EPRChatFail(c)
       => /\ ret'[c] = [op |-> "ProcessRequest", res |-> "soft"]
          /\ resp'[c].id = ReqId(c)
          /\ resp'[c].error # ""
          /\ resp'[c].content = ""
          /\ resp'[c].toolUses = 0
          /\ ~resp'[c].metadata
          /\ metrics'.fail = metrics.fail + 1
          /\ metrics'.succ = metrics.succ]_vars

\* a provider call has failed after another one had succeeded
C14_Witness ==
  /\ \E c \in Clients : ret[c].res = "soft" /\ resp[c].error # ""
  /\ metrics.succ = 1
  /\ metrics.fail = 1

\* the Metrics a client reads through the pointer it holds, after the step
SeenNext(c) == IF snap'[c].ref = "live" THEN metrics' ELSE snap'[c].val

\* C15: what GetMetrics returned is a copy: no step of anyone else changes
\* what the holder reads from it, and the holder's write to it does not change
\* the engine's metrics.
C15_MetricsSnapshot ==
  [][\A c \in Clients :
       snap[c].ref # "none"
       => /\ (~GetMetrics(c) /\ ~WriteSnapshot(c)) => SeenNext(c) = Seen(c)
          /\ WriteSnapshot(c) => metrics' = metrics]_vars

\* a client holds a snapshot taken before a DeployCluster and has written to
\* it; the engine has counted the cluster and kept its RequestsTotal
C15_Witness ==
  /\ \E c \in Clients :
       /\ snap[c].ref = "copy"
       /\ snap[c].val.total = -1
       /\ snap[c].val.clustersTotal = 0
  /\ metrics.clustersTotal = 1
  /\ metrics.total = 0

\* C17: when Engine.Close closes the first provider every cluster that was
\* registered when Close was called, and still is, has status stopped; and no
\* tool is closed while a provider is still open.
C17_CloseOrder ==
  /\ [][\A c \in Clients :
          CloseProviders(c)
          => \A n \in loc[c].todo \cap Registered :
               clusters[getCluster(n)].status = "stopped"]_vars
  /\ [](resources.toolsClosed # {} => resources.provClosed = RegisteredProviders)

\* the edges of the agent state machine (and the creation of the object)
Edge(s, t) ==
  \/ s = "none" /\ t = "pending"
  \/ s \in {"pending", "stopped"} /\ t = "starting"
  \/ s = "starting" /\ t = "running"
  \/ s = "running" /\ t = "idle"
  \/ s = "idle" /\ t = "running"
  \/ s \notin {"none", "stopped"} /\ t \in {"stopping", "failed"}
  \/ s = "stopping" /\ t = "stopped"

\* C21: every change of an agent's status follows an edge of the state
\* machine, under every interleaving of the API calls and the supervisor.
C21_StatusFollowsEdges ==
  [][\A a \in AgentIds :
       agents'[a].status # agents[a].status
       => Edge(agents[a].status, agents'[a].status)]_vars

\* C22: after DeleteAgent the agent is out of the registry and its context is
\* cancelled, so that no supervisor goroutine is left running for it.
C22_DeleteStops ==
  \A a \in AgentIds :
    (a <= nCreated /\ a \notin reg /\ sups[a] # <<>>) => agents[a].cancelled

\* C23: the supervisor's idle check changes the status and publishes
\* agent.idle only when the status is running.
C23_IdleOnlyFromRunning ==
  [][\A a \in AgentIds : \A i \in 1..Len(sups[a]) :
       (SupCheck(a, i) /\ agents[a].status # "running")
       => /\ agents'[a].status = agents[a].status
          /\ events' = events]_vars

\* C25: the channel never holds more than 100 events; a publication on a
\* full channel changes nothing and the publishing call goes on; on a channel
\* that is not full it appends the event; a consumer takes the oldest event.
C25_PublishNeverBlocks ==
  /\ [](Len(events) <= EventCap)
  /\ [][\A c \in Clients, a \in AgentIds :
          (StartAgent(c, a) /\ StartOk(a))
          => /\ events' = IF Len(events) = EventCap THEN events
                           ELSE Append(events, <<"agent.started", a>>)
             /\ ret'[c] = [op |-> "StartAgent", res |-> "ok"]]_vars
  /\ [][\/ events' = events
        \/ events' = Tail(events)
        \/ /\ Len(events') = Len(events) + 1
           /\ SubSeq(events', 1, Len(events)) = events]_vars

\* the channel is full and holds no event of an agent that has been started:
\* its agent.started was dropped
C25_Witness ==
  /\ Len(events) = EventCap
  /\ \E a \in reg :
       /\ agents[a].status = "starting"
       /\ \A i \in 1..EventCap : events[i][2] # a

\* C26: a cluster that was never stopped (every call so far was a successful
\* DeployCluster) has status running only when every agent of its spec is in
\* its agent map.
C26_RunningAfterFanOut ==
  \A k \in 1..Len(clusters) :
    (clusters[k].status = "running" /\ calls = Len(clusters))
    => \A i \in 1..Len(clusters[k].spec.agents) :
         clusters[k].agents[clusters[k].spec.agents[i].name] # 0

\* C29: once every fan-out and every call has completed, AgentsTotal is the
\* number of agents created, ClustersTotal the number of clusters registered
\* and RequestsTotal the number of requests answered by the provider.
C29_NoLostUpdate ==
  ( /\ \A k \in 1..Len(clusters) : clusters[k].fpc = "done"
    /\ \A c \in Clients : pc[c] = "idle" )
  => /\ metrics.agentsTotal = nCreated
     /\ metrics.clustersTotal = Cardinality({n \in ClusterNames : ClusterExists(n)})
     /\ metrics.total = metrics.succ + metrics.fail

\* C27: every provider call carries a deadline: the request's Timeout when
\* it is set, a default otherwise.
C27_ProviderCallBounded ==
  \A c \in Clients :
    pc[c] = "eprChat"
    => /\ loc[c].deadline # NoDeadline
       /\ ReqTimeout(c) > 0 => loc[c].deadline = loc[c].start + ReqTimeout(c)

\* C28: the provider receives the agent's model and, in order, the system
\* prompt when there is one followed by the request's messages, roles and
\* contents unchanged.
C28_ProviderMessages ==
  \A c \in Clients :
    pc[c] = "eprChat"
    => LET a == loc[c].a
           sent == loc[c].chat.messages
           req == ReqMessages(c)
       IN /\ loc[c].chat.model = agents[a].model
          /\ IF agents[a].prompt # ""
               THEN /\ Len(sent) = Len(req) + 1
                    /\ sent[1] = [role |-> "system", content |-> agents[a].prompt]
                    /\ \A i \in 1..Len(req) :
                         /\ sent[i + 1].role = req[i].role
                         /\ sent[i + 1].content = req[i].content
               ELSE /\ Len(sent) = Len(req)
                    /\ \A i \in 1..Len(req) :
                         /\ sent[i].role = req[i].role
                         /\ sent[i].content = req[i].content

\* a request of three messages is in flight for an agent with a prompt, and
\* one of one message for an agent without
C28_Witness ==
  /\ pc["c2"] = "eprChat" /\ agents[loc["c2"].a].prompt # ""
  /\ Len(loc["c2"].chat.messages) = 4
  /\ pc["c1"] = "eprChat" /\ agents[loc["c1"].a].prompt = ""
  /\ Len(loc["c1"].chat.messages) = 1

\* C30: a successful provider call sets AverageResponseTime to the integer
\* half of its sum with the call's duration and refreshes the agent's
\* LastActivity; a failed one leaves both unchanged; the average starts at 0.
C30_DampedAverage ==
  /\ [](metrics.succ = 0 => metrics.avg = 0)
  /\ [][\A c \in Clients :
          /\ EPRChatOk(c)
             => /\ metrics'.avg = (metrics.avg + (now - loc[c].start)) \div 2
                /\ agents'[loc[c].a].lastActivity = now
          /\ EPRChatFail(c)
             => /\ metrics'.avg = metrics.avg
                /\ agents' = agents]_vars

\* two calls have succeeded, the later one at tick 2 with the average at 1,
\* and one has failed
C30_Witness ==
  /\ metrics.succ = 2
  /\ metrics.fail = 1
  /\ metrics.avg = 1
  /\ \E a \in reg : agents[a].lastActivity = 2

\* C31: for an agent created by DeployCluster the supervisor's idle timeout
\* is the timeout the spec sets for that agent, and the default when it sets
\* none.
C31_ConfiguredIdleTimeout ==
  \A k \in 1..Len(clusters) : \A i \in 1..Len(clusters[k].spec.agents) :
    LET cfg == clusters[k].spec.agents[i]
        a == clusters[k].agents[cfg.name]
    IN a # 0
       => idleTimeout(a) = IF cfg.timeout > 0 THEN cfg.timeout
                           ELSE DefaultIdleTicks

\* C33: the manager's registry holds at most one agent per pair of cluster
\* name and agent name.
C33_OneAgentPerName ==
  \A a, b \in reg :
    (a # b /\ agents[a].cluster # "")
    => ~(agents[a].cluster = agents[b].cluster /\ agents[a].name = agents[b].name)

\* C38: at most one supervisor goroutine is alive per agent.
C38_OneSupervisor == \A a \in AgentIds : Len(sups[a]) <= 1

\* an agent that was stopped (its context is cancelled) has been started
\* again and has its one new supervisor
C38_Witness ==
  \E a \in reg :
    /\ agents[a].cancelled
    /\ agents[a].status = "starting"
    /\ Len(sups[a]) = 1

\* C32: CreateAgent with an empty provider or an empty model returns an
\* error and adds nothing to the registry; with a valid config it adds one
\* pending agent and returns no error.
C32_CreateValidates ==
  [][\A c \in Clients, cfg \in AgentConfigs :
       CreateAgentCfg(c, cfg)
       => IF cfg.provider = "" \/ cfg.model = ""
            THEN /\ ret'[c] = [op |-> "CreateAgent", res |-> "err"]
                 /\ reg' = reg
            ELSE /\ ret'[c] = [op |-> "CreateAgent", res |-> "ok"]
                 /\ \E a \in AgentIds \ reg :
                      /\ reg' = reg \cup {a}
                      /\ agents'[a].status = "pending"]_vars

\* C34: with a clock that never goes back, the LastActivity of an agent that
\* is not stopped never decreases, whatever the interleaving of the
\* Manager.ProcessRequest and Engine.ProcessRequest calls that write it
C34_ActivityMonotonic ==
  [][\A a \in AgentIds :
       agents[a].status # "stopped" =>
         agents'[a].lastActivity >= agents[a].lastActivity]_vars

\* two requests in flight on one agent, begun at different times, the later
\* one answered first and the earlier one answered after it
C34_Witness ==
  /\ now = 1
  /\ ret["c1"] = [op |-> "ProcessRequest", res |-> "ok"]
  /\ ret["c2"] = [op |-> "ProcessRequest", res |-> "ok"]
  /\ metrics.avg = 0
  /\ metrics.succ = 2
  /\ \E a \in reg : agents[a].lastActivity = 1 /\ agents[a].updatedAt = 0

\* C37: whenever no DeployCluster or DeleteCluster call is in progress,
\* ClustersTotal is the number of clusters in the engine's registry
C37_ClustersCounted ==
  (\A c \in Clients : pc[c] \notin {"dcStop", "dcRemove"}) =>
    metrics.clustersTotal = Cardinality(Registered)

\* two clusters deployed, one of them deleted, a failed deploy and a failed
\* delete
C37_Witness ==
  /\ \A c \in Clients : pc[c] = "idle"
  /\ ret["c1"] = [op |-> "DeleteCluster", res |-> "ok"]
  /\ Cardinality(Registered) = 1
  /\ Len(clusters) = 2
  /\ metrics.clustersTotal = 1

\* C39: Engine.ProcessRequest neither reads nor writes lifecycle state: the
\* agent a request is dispatched to depends on the registry and the cluster's
\* agent map only, not on the status of the cluster or of the agent, and
\* neither the dispatch nor the provider's answer changes the registries, a
\* cluster's status, an agent's status or an agent's request counters
C39_RequestIgnoresLifecycle ==
  [][/\ \A n \in ClusterNames, x \in AgentNames :
          EPRTarget(n, x) = IF clusterReg[n] = 0 THEN 0
                            ELSE clusters[clusterReg[n]].agents[x]
     /\ \A c \in Clients :
          ( \/ pc[c] = "eprChat" /\ pc'[c] = "idle"
            \/ pc[c] = "idle" /\ pc'[c] = "eprChat" )
          => /\ clusterReg' = clusterReg
             /\ reg' = reg
             /\ \A k \in 1..Len(clusters) : clusters'[k].status = clusters[k].status
             /\ \A a \in AgentIds : agents'[a].status = agents[a].status
             /\ \A a \in AgentIds :
                  /\ agents'[a].cancelled = agents[a].cancelled
                  /\ agents'[a].total = agents[a].total
                  /\ agents'[a].succ = agents[a].succ
                  /\ agents'[a].fail = agents[a].fail]_vars

\* a request answered by the provider for an agent of a stopped cluster
C39_Witness ==
  \E c \in Clients, k \in 1..Len(clusters) :
    /\ ret[c] = [op |-> "ProcessRequest", res |-> "ok"]
    /\ clusters[k].status = "stopped"
    /\ clusterReg[clusters[k].name] = k
    /\ \E a \in ClusterAgents(k) \cap reg :
         /\ agents[a].status = "stopping"
         /\ agents[a].lastActivity > agents[a].updatedAt

\* the names an agent of the manifest depends on, and the agents reached from
\* a name along depends_on
DependsOn(m, x) ==
  UNION {{m.agents[i].dependsOn[j] : j \in DOMAIN m.agents[i].dependsOn} :
           i \in {i \in DOMAIN m.agents : m.agents[i].name = x}}

RECURSIVE ReachedFrom(_, _, _)
ReachedFrom(m, S, n) ==
  IF n = 0 THEN S
  ELSE ReachedFrom(m, S \cup UNION {DependsOn(m, x) : x \in S}, n - 1)

Declared(m) == {m.agents[i].name : i \in DOMAIN m.agents}

DependenciesExist(m) == \A x \in Declared(m) : DependsOn(m, x) \subseteq Declared(m)

Acyclic(m) ==
  \A x \in Declared(m) : x \notin ReachedFrom(m, DependsOn(m, x), Len(m.agents))

WellFormed(m) ==
  /\ m.name # ""
  /\ Len(m.agents) > 0
  /\ \A i, j \in DOMAIN m.agents : i # j => m.agents[i].name # m.agents[j].name
  /\ \A i \in DOMAIN m.agents :
       /\ m.agents[i].name # ""
       /\ m.agents[i].model # ""
       /\ isValidProvider(m.agents[i].provider)

\* C35: validateAgentCluster accepts a manifest only if every depends_on
\* entry names an agent of the manifest and the depends_on graph has no
\* cycle (a self-dependency is one), and it accepts every manifest that
\* meets both conditions and has valid names, providers and models,
\* whatever the order in which the agents are declared
C35_DependsOnValidated ==
  \A c \in Clients :
    ret[c].op = "LoadAgentCluster" =>
      /\ ret[c].res = "ok" => DependenciesExist(manifest) /\ Acyclic(manifest)
      /\ (WellFormed(manifest) /\ DependenciesExist(manifest) /\ Acyclic(manifest))
           => ret[c].res = "ok"

\* the order in which the locks nest
LockRank(l) ==
  CASE l = "e.mu" -> 1
    [] l \in ClusterLocks -> 1
    [] l = "m.mu" -> 2
    [] OTHER -> 3

\* C36: no interleaving of DeployCluster, StopCluster, DeleteCluster,
\* Engine.ProcessRequest, GetMetrics, ListClusters, the startCluster
\* goroutines and the agent supervisors deadlocks: a goroutine asks for a
\* lock only while it holds locks that come earlier in one fixed order, and
\* whenever some goroutine is inside an operation, one of them can take its
\* next step
C36_NoDeadlock ==
  /\ \A t \in Threads : \A h \in held :
       (h[1] = t /\ prog[t] # <<>> /\ Head(prog[t])[1] \in {"Lock", "Wait", "RLock"})
         => LockRank(h[2]) < LockRank(Head(prog[t])[2])
  /\ (\E t \in Threads : prog[t] # <<>>) => \E t \in Threads : CanStep(t)

\* DeleteCluster holds e.mu and waits for m.mu, which StopCluster holds
\* under a cluster's lock, while ListClusters waits behind DeleteCluster
C36_Witness ==
  \E t, u, v \in Threads :
    /\ <<t, "e.mu", "w">> \in held
    /\ Head(prog[t]) = <<"Wait", "m.mu">>
    /\ <<u, "m.mu", "w">> \in held
    /\ \E k \in ClusterLocks : <<u, k, "w">> \in held
    /\ prog[v] # <<>>
    /\ Head(prog[v]) = <<"RLock", "e.mu">>

====
